---- MODULE Spec2Model ----
(***************************************************************************)
(* A model of tkrzw_lib_common.h: the Status value type, StatusException,  *)
(* the fail-fast allocation wrappers with the append growth policy, the    *)
(* container lookup helpers and the resumable CRC-32.                      *)
(*                                                                         *)
(* std::string values are TLA+ strings; Len, \o and SubSeq act on them as  *)
(* size(), operator+ and substr().  Unsigned machine integers wider than   *)
(* 31 bits are little-endian sequences of 16-bit limbs (uint32_t: 2 limbs, *)
(* size_t: 4 limbs), with arithmetic modulo 2^(16 * number of limbs).      *)
(***************************************************************************)
EXTENDS Integers, Sequences, FiniteSets

VARIABLES
  recv,   \* Status: the object an operation is called on (*this)
  arg,    \* Status: the right-hand operand of the last binary operation
  buf,    \* CRC: the whole byte buffer of a chunked computation
  pos,    \* CRC: number of bytes of buf already fed
  acc,    \* CRC: the accumulator carried from call to call
  ptr,    \* allocator: the caller's buffer pointer (NULL or a block)
  cap,    \* allocator: the allocated capacity of the caller's buffer (size_t)
  size,   \* allocator: the size requested by the call that produced cap
  map,    \* lookup: the caller's associative container
  res,    \* the result of the last operation
  pc,           \* growth loop: where the running xreallocappend call stands
  loop_size,    \* growth loop: the size argument of the running call (size_t)
  loop_aligned  \* growth loop: aligned_size, the candidate capacity (size_t)

vars == <<recv, arg, buf, pos, acc, ptr, cap, size, map, res,
          pc, loop_size, loop_aligned>>

(***************************************************************************)
(* Bounds of the model.                                                    *)
(***************************************************************************)
\* longest detail message of a Status in the Status state machine
MaxMsgLen == 1
\* longest detail message of the Statuses handed to the comparison operators
MaxCmpLen == 2
\* largest of the small sizes requested from the allocator
MaxSize == 13
\* largest element count handed to xcalloc
MaxNmemb == 2
\* longest byte buffer handed to the checksum
MaxBufLen == 3

\* the characters detail messages are made of
MsgChars == {"a", "b"}

RECURSIVE StringsUpTo(_)
StringsUpTo(n) ==
  IF n = 0 THEN {""}
  ELSE LET shorter == StringsUpTo(n - 1)
       IN  shorter \cup {m \o c : m \in {s \in shorter : Len(s) = n - 1}, c \in MsgChars}

Messages == StringsUpTo(MaxMsgLen)
CmpMessages == StringsUpTo(MaxCmpLen)

(***************************************************************************)
(* Status::Code                                                            *)
(***************************************************************************)
SUCCESS == 0
UNKNOWN_ERROR == 1
SYSTEM_ERROR == 2
NOT_IMPLEMENTED_ERROR == 3
PRECONDITION_ERROR == 4
INVALID_ARGUMENT_ERROR == 5
CANCELED_ERROR == 6
NOT_FOUND_ERROR == 7
PERMISSION_ERROR == 8
INFEASIBLE_ERROR == 9
DUPLICATION_ERROR == 10
BROKEN_DATA_ERROR == 11
APPLICATION_ERROR == 12

\* the enumerators of Status::Code, as ordinals
Codes ==
  { SUCCESS, UNKNOWN_ERROR, SYSTEM_ERROR, NOT_IMPLEMENTED_ERROR, PRECONDITION_ERROR,
    INVALID_ARGUMENT_ERROR, CANCELED_ERROR, NOT_FOUND_ERROR, PERMISSION_ERROR,
    INFEASIBLE_ERROR, DUPLICATION_ERROR, BROKEN_DATA_ERROR, APPLICATION_ERROR }

\* the identifier each enumerator is declared with
CodeIdent(code) ==
  CASE code = SUCCESS -> "SUCCESS"
    [] code = UNKNOWN_ERROR -> "UNKNOWN_ERROR"
    [] code = SYSTEM_ERROR -> "SYSTEM_ERROR"
    [] code = NOT_IMPLEMENTED_ERROR -> "NOT_IMPLEMENTED_ERROR"
    [] code = PRECONDITION_ERROR -> "PRECONDITION_ERROR"
    [] code = INVALID_ARGUMENT_ERROR -> "INVALID_ARGUMENT_ERROR"
    [] code = CANCELED_ERROR -> "CANCELED_ERROR"
    [] code = NOT_FOUND_ERROR -> "NOT_FOUND_ERROR"
    [] code = PERMISSION_ERROR -> "PERMISSION_ERROR"
    [] code = INFEASIBLE_ERROR -> "INFEASIBLE_ERROR"
    [] code = DUPLICATION_ERROR -> "DUPLICATION_ERROR"
    [] code = BROKEN_DATA_ERROR -> "BROKEN_DATA_ERROR"
    [] code = APPLICATION_ERROR -> "APPLICATION_ERROR"

\* Status::CodeName: the switch over the code, with its fallback
CodeName(code) ==
  CASE code = SUCCESS -> "SUCCESS"
    [] code = UNKNOWN_ERROR -> "UNKNOWN_ERROR"
    [] code = SYSTEM_ERROR -> "SYSTEM_ERROR"
    [] code = NOT_IMPLEMENTED_ERROR -> "NOT_IMPLEMENTED_ERROR"
    [] code = PRECONDITION_ERROR -> "PRECONDITION_ERROR"
    [] code = INVALID_ARGUMENT_ERROR -> "INVALID_ARGUMENT_ERROR"
    [] code = CANCELED_ERROR -> "CANCELED_ERROR "
    [] code = NOT_FOUND_ERROR -> "NOT_FOUND_ERROR"
    [] code = PERMISSION_ERROR -> "PERMISSION_ERROR"
    [] code = INFEASIBLE_ERROR -> "INFEASIBLE_ERROR"
    [] code = DUPLICATION_ERROR -> "DUPLICATION_ERROR"
    [] code = BROKEN_DATA_ERROR -> "BROKEN_DATA_ERROR"
    [] code = APPLICATION_ERROR -> "APPLICATION_ERROR"
    [] OTHER -> "unnamed error"

(***************************************************************************)
(* Status                                                                  *)
(***************************************************************************)
\* Status(Code code, std::string_view message = "")
Status(code, message) == [code |-> code, message |-> message]

\* Status(): the default constructor
StatusDefault == [code |-> SUCCESS, message |-> ""]

\* the Statuses of the Status state machine, and those handed to the comparisons
Statuses == {Status(c, m) : c \in Codes, m \in Messages}
CmpStatuses == {Status(c, m) : c \in Codes, m \in CmpMessages}

\* Status(const Status& rhs): the new object
CopyConstruct(rhs) == [code |-> rhs.code, message |-> rhs.message]

\* Status(Status&& rhs): the new object and rhs afterwards; the message of
\* the new object, empty before the swap, is left in rhs
MoveConstruct(rhs) ==
  <<[code |-> rhs.code, message |-> rhs.message],
    [code |-> rhs.code, message |-> ""]>>

\* Status::operator=(const Status&): the receiver after `this = rhs`;
\* same: rhs is *this
Assign(this, rhs, same) ==
  IF ~same THEN [code |-> rhs.code, message |-> rhs.message] ELSE this

\* Status::operator=(Status&&): the receiver and rhs after
\* `this = std::move(rhs)`; the messages are swapped, rhs keeps its code
MoveAssign(this, rhs, same) ==
  IF ~same
  THEN <<[code |-> rhs.code, message |-> rhs.message],
         [code |-> rhs.code, message |-> this.message]>>
  ELSE <<this, this>>

\* an operator|= that overwrites a failure already held
OrAssignOverwrites(this, rhs, same) ==
  IF ~same /\ rhs.code # SUCCESS
  THEN [code |-> rhs.code, message |-> rhs.message]
  ELSE this

\* an operator|= that does not copy the message
OrAssignKeepsMessage(this, rhs, same) ==
  IF ~same /\ this.code = SUCCESS /\ rhs.code # SUCCESS
  THEN [code |-> rhs.code, message |-> this.message]
  ELSE this

\* Status::operator|=: the receiver after `this |= rhs`; same: rhs is *this
OrAssign(this, rhs, same) ==
  IF ~same /\ this.code = SUCCESS /\ rhs.code # SUCCESS
  THEN [code |-> rhs.code, message |-> rhs.message]
  ELSE this

\* Status::IsOK
IsOK(this) == this.code = SUCCESS

\* a conversion to string that leaves the message out
StatusStringNoMessage(this) == CodeName(this.code)

\* Status::operator std::string
StatusString(this) ==
  LET expr == CodeName(this.code)
  IN  IF this.message # "" THEN (expr \o ": ") \o this.message ELSE expr

\* ToString(const Status&)
ToString(status) == StatusString(status)

\* StatusException(const Status&): what() is the runtime_error's message
StatusException(status) == [what |-> ToString(status), status_ |-> status]

\* StatusException::GetStatus
GetStatus(exc) == exc.status_

\* Status::OrDie: throws StatusException unless the status is success
OrDie(this) ==
  IF this.code # SUCCESS
  THEN [op |-> "OrDie", thrown |-> TRUE, exc |-> StatusException(this)]
  ELSE [op |-> "OrDie", thrown |-> FALSE, ret |-> this]

\* the value of a character as unsigned char
CharCode(c) == CASE c = "a" -> 97 [] c = "b" -> 98

\* std::char_traits<char>::compare over the first n characters, from index i:
\* negative, zero or positive
RECURSIVE TraitsCompare(_, _, _, _)
TraitsCompare(a, b, i, n) ==
  IF i > n THEN 0
  ELSE LET x == CharCode(SubSeq(a, i, i))
           y == CharCode(SubSeq(b, i, i))
       IN  IF x < y THEN -1
           ELSE IF x > y THEN 1
           ELSE TraitsCompare(a, b, i + 1, n)

\* std::string::compare: the common prefix by characters, then the lengths
StringCompare(a, b) ==
  LET rlen == IF Len(a) < Len(b) THEN Len(a) ELSE Len(b)
      r == TraitsCompare(a, b, 1, rlen)
  IN  IF r # 0 THEN r ELSE Len(a) - Len(b)

\* operator<(const std::string&, const std::string&)
StringLess(a, b) == StringCompare(a, b) < 0

\* an operator< that forgets the message when the codes are equal
LessCodeOnly(this, rhs) == this.code < rhs.code

\* Status::operator<
Less(this, rhs) ==
  IF this.code # rhs.code
  THEN this.code < rhs.code
  ELSE StringLess(this.message, rhs.message)

\* an operator== that takes the message into account
EqualWithMessage(this, rhs) == this.code = rhs.code /\ this.message = rhs.message

\* Status::operator==(const Status&)
Equal(this, rhs) == this.code = rhs.code

\* Status::operator!=(const Status&)
NotEqual(this, rhs) == this.code # rhs.code

\* Status::operator==(const Code&)
EqualCode(this, code) == this.code = code

\* Status::operator!=(const Code&)
NotEqualCode(this, code) == this.code # code

\* operator==(const Status::Code&, const Status&)
CodeEqual(lhs, rhs) == lhs = rhs.code

\* operator!=(const Status::Code&, const Status&)
CodeNotEqual(lhs, rhs) == lhs # rhs.code

(***************************************************************************)
(* Unsigned machine integers: little-endian sequences of 16-bit limbs.     *)
(***************************************************************************)
\* the number of values of a limb, and half of it
LimbBase == 2 ^ 16
LimbHalf == LimbBase \div 2

\* the natural n (below 2^31) as an unsigned integer of k limbs
RECURSIVE ToLimbs(_, _)
ToLimbs(n, k) ==
  IF k = 0 THEN <<>>
  ELSE <<n % LimbBase>> \o ToLimbs(n \div LimbBase, k - 1)

\* the limbs of x >> 1 from limb i up
RECURSIVE ShiftRight1From(_, _)
ShiftRight1From(x, i) ==
  IF i > Len(x) THEN <<>>
  ELSE <<(x[i] \div 2) + (IF i < Len(x) THEN (x[i + 1] % 2) * LimbHalf ELSE 0)>>
         \o ShiftRight1From(x, i + 1)

\* x >> 1
ShiftRight1(x) == ShiftRight1From(x, 1)

\* the limbs of x + y from limb i up, with the carry into limb i
RECURSIVE AddFrom(_, _, _, _)
AddFrom(x, y, i, carry) ==
  IF i > Len(x) THEN <<>>
  ELSE <<(x[i] + y[i] + carry) % LimbBase>>
         \o AddFrom(x, y, i + 1, (x[i] + y[i] + carry) \div LimbBase)

\* x + y modulo 2^(16 * Len(x)): the carry out of the top limb is lost
AddWrap(x, y) == AddFrom(x, y, 1, 0)

\* x < y, from the most significant limb down
RECURSIVE LessFrom(_, _, _)
LessFrom(x, y, i) ==
  IF i = 0 THEN FALSE
  ELSE IF x[i] # y[i] THEN x[i] < y[i]
  ELSE LessFrom(x, y, i - 1)

LessU(x, y) == LessFrom(x, y, Len(x))

\* x with one more (zero) most significant limb
Widen(x) == Append(x, 0)

\* size_t: 64 bits
SizeLimbs == 4
SizeT(n) == ToLimbs(n, SizeLimbs)

(***************************************************************************)
(* The allocation wrappers.  The platform allocator is a nondeterministic  *)
(* choice between the null pointer and a block.                            *)
(***************************************************************************)
NULL == "nullptr"
Blocks == {"block"}
Pointers == {NULL} \cup Blocks

\* xmalloc(size); raw: what std::malloc yields
xmalloc(sz, raw) ==
  IF raw = NULL
  THEN [outcome |-> "bad_alloc"]
  ELSE [outcome |-> "returned", ptr |-> raw]

\* xcalloc(nmemb, size); raw: what std::calloc yields
xcalloc(nmemb, sz, raw) ==
  IF raw = NULL
  THEN [outcome |-> "bad_alloc"]
  ELSE [outcome |-> "returned", ptr |-> raw]

\* an xrealloc that hands the allocator's pointer back unchecked
xreallocUnchecked(p, sz, raw) == [outcome |-> "returned", ptr |-> raw]

\* xrealloc(ptr, size); raw: what std::realloc yields
xrealloc(p, sz, raw) ==
  IF raw = NULL
  THEN [outcome |-> "bad_alloc"]
  ELSE [outcome |-> "returned", ptr |-> raw]

\* one round of the loop of xreallocappend: aligned_size += aligned_size >> 1
GrowStep(aligned_size) == AddWrap(aligned_size, ShiftRight1(aligned_size))

\* the loop of xreallocappend from a candidate capacity
RECURSIVE GrowLoop(_, _)
GrowLoop(aligned_size, sz) ==
  IF LessU(aligned_size, sz) THEN GrowLoop(GrowStep(aligned_size), sz)
  ELSE aligned_size

\* a growth policy that grows once instead of looping
AlignedSizeGrowsOnce(sz) ==
  IF LessU(SizeT(8), sz) THEN GrowStep(SizeT(8)) ELSE SizeT(8)

\* the capacity xreallocappend computes and passes to xrealloc
AlignedSize(sz) == GrowLoop(SizeT(8), sz)

(***************************************************************************)
(* The resumable CRC-32 (reflected, polynomial 0xEDB88320) over uint32_t   *)
(* values of two limbs.                                                    *)
(***************************************************************************)
\* the bytes buffers are made of
CrcBytes == {0, 49, 255}

RECURSIVE BuffersOfLen(_)
BuffersOfLen(n) ==
  IF n = 0 THEN {<<>>}
  ELSE {Append(b, x) : b \in BuffersOfLen(n - 1), x \in CrcBytes}

\* the non-empty buffers handed to the checksum
Buffers == UNION {BuffersOfLen(n) : n \in 1..MaxBufLen}

\* a ^ b on naturals
RECURSIVE BitXor(_, _)
BitXor(a, b) ==
  IF a = 0 THEN b
  ELSE IF b = 0 THEN a
  ELSE (((a % 2) + (b % 2)) % 2) + 2 * BitXor(a \div 2, b \div 2)

\* the limbs of x ^ y from limb i up
RECURSIVE XorFrom(_, _, _)
XorFrom(x, y, i) ==
  IF i > Len(x) THEN <<>>
  ELSE <<BitXor(x[i], y[i])>> \o XorFrom(x, y, i + 1)

\* x ^ y
XorU(x, y) == XorFrom(x, y, 1)

\* 0xFFFFFFFF: the seed of the first call and the mask of the final inversion
CRC_SEED == <<65535, 65535>>

\* 0xEDB88320: the reflected CRC-32 polynomial
CRC_POLY == <<33568, 60856>>

\* the accumulator after k more bits: for each, crc = (crc >> 1) ^ poly when
\* the low bit is set, crc >> 1 otherwise
RECURSIVE CrcBits(_, _)
CrcBits(crc, k) ==
  IF k = 0 THEN crc
  ELSE IF crc[1] % 2 = 1 THEN CrcBits(XorU(ShiftRight1(crc), CRC_POLY), k - 1)
  ELSE CrcBits(ShiftRight1(crc), k - 1)

\* the accumulator after one byte
CrcByte(crc, byte) == CrcBits(XorU(crc, <<byte, 0>>), 8)

\* the accumulator after the bytes of bytes from index i on
RECURSIVE CrcBytesFrom(_, _, _)
CrcBytesFrom(crc, bytes, i) ==
  IF i > Len(bytes) THEN crc
  ELSE CrcBytesFrom(CrcByte(crc, bytes[i]), bytes, i + 1)

\* HashCRC32Continuous(buf, size, finish, seed)
HashCRC32Continuous(bytes, finish, seed) ==
  LET crc == CrcBytesFrom(seed, bytes, 1)
  IN  IF finish THEN XorU(crc, CRC_SEED) ELSE crc

\* a one-shot checksum that does not finish the cycle
HashCRC32Unfinished(bytes) == HashCRC32Continuous(bytes, FALSE, CRC_SEED)

\* HashCRC32(buf, size): one call with finish = true and the default seed
HashCRC32(bytes) == HashCRC32Continuous(bytes, TRUE, CRC_SEED)

(***************************************************************************)
(* The lookup helpers over std::map<K, V> with unsigned integer K and V.   *)
(***************************************************************************)
IntTypes == {"uint8_t", "uint16_t"}

\* the number of values of an unsigned integer type
TypeRange(t) == IF t = "uint8_t" THEN 256 ELSE 65536

\* the conversion of an unsigned value to an unsigned integer type
ConvertTo(t, v) == v % TypeRange(t)

\* the keys, and the values of each mapped type, the containers are made of
MapKeys == {1, 2}
MapValues(t) == IF t = "uint8_t" THEN {0, 7, 255} ELSE {0, 7, 300}

\* the containers: the key type, the mapped type and the records
ContainersOf(kt, vt) ==
  { [key_type |-> kt, mapped_type |-> vt, recs |-> r] :
      r \in UNION {[d -> MapValues(vt)] : d \in SUBSET MapKeys} }

Containers == UNION {ContainersOf(kt, vt) : kt \in IntTypes, vt \in IntTypes}

\* CheckMap(map, key)
CheckMap(m, key) == key \in DOMAIN m.recs

\* SearchMap(map, key, default_value): the conditional has the mapped type and
\* is converted to the declared return type, MAP::value_type::first_type
SearchMap(m, key, default_value) ==
  LET found == IF key \in DOMAIN m.recs THEN m.recs[key] ELSE default_value
  IN  ConvertTo(m.key_type, found)

(***************************************************************************)
(* The state every specification starts from, the variables of the other   *)
(* components staying at these values.                                     *)
(***************************************************************************)
NoResult == [op |-> "none"]
EmptyMap == [key_type |-> "uint8_t", mapped_type |-> "uint8_t", recs |-> <<>>]

StatusIdle == recv = StatusDefault /\ arg = StatusDefault
CrcIdle == buf = <<>> /\ pos = 0 /\ acc = CRC_SEED
AllocIdle == ptr = NULL /\ cap = SizeT(0) /\ size = SizeT(0)
MapIdle == map = EmptyMap
LoopIdle == pc = "idle" /\ loop_size = SizeT(0) /\ loop_aligned = SizeT(0)

statusVars == <<recv, arg>>
crcVars == <<buf, pos, acc>>
allocVars == <<ptr, cap, size>>
loopVars == <<pc, loop_size, loop_aligned>>

(***************************************************************************)
(* The Status state machine: one Status object and the operations on it.   *)
(* arg holds the right-hand operand of operator|= and is the default       *)
(* Status after any other operation.                                       *)
(***************************************************************************)
Init ==
  /\ StatusIdle /\ CrcIdle /\ AllocIdle /\ MapIdle /\ LoopIdle
  /\ res = NoResult

\* Status::Set(code, message)
StatusSet ==
  \E c \in Codes, m \in Messages :
    /\ recv' = Status(c, m)
    /\ arg' = StatusDefault
    /\ res' = [op |-> "Set"]
    /\ UNCHANGED <<crcVars, allocVars, map, loopVars>>

\* recv is constructed as a copy of another Status object
OpCopyConstruct ==
  \E r \in Statuses :
    /\ recv' = CopyConstruct(r)
    /\ arg' = r
    /\ res' = [op |-> "Status(const Status&)"]
    /\ UNCHANGED <<crcVars, allocVars, map, loopVars>>

\* recv is constructed from another Status object that is moved from
OpMoveConstruct ==
  \E r \in Statuses :
    /\ recv' = MoveConstruct(r)[1]
    /\ arg' = MoveConstruct(r)[2]
    /\ res' = [op |-> "Status(Status&&)", rhs_before |-> r]
    /\ UNCHANGED <<crcVars, allocVars, map, loopVars>>

\* recv = rhs, with rhs another Status object or recv itself
OpAssign ==
  \E same \in BOOLEAN :
    \E rhs \in (IF same THEN {recv} ELSE Statuses) :
        /\ recv' = Assign(recv, rhs, same)
        /\ arg' = rhs
        /\ res' = [op |-> "=", same |-> same, before |-> recv]
        /\ UNCHANGED <<crcVars, allocVars, map, loopVars>>

\* recv = std::move(rhs), with rhs another Status object or recv itself
OpMoveAssign ==
  \E same \in BOOLEAN :
    \E rhs \in (IF same THEN {recv} ELSE Statuses) :
        /\ recv' = MoveAssign(recv, rhs, same)[1]
        /\ arg' = MoveAssign(recv, rhs, same)[2]
        /\ res' = [op |-> "=&&", same |-> same, before |-> recv, rhs_before |-> rhs]
        /\ UNCHANGED <<crcVars, allocVars, map, loopVars>>

\* recv |= rhs, with rhs another Status object or recv itself
OpOrAssign ==
  \E same \in BOOLEAN :
    \E rhs \in (IF same THEN {recv} ELSE Statuses) :
        /\ recv' = OrAssign(recv, rhs, same)
        /\ arg' = rhs
        /\ res' = [op |-> "|=", same |-> same, before |-> recv]
        /\ UNCHANGED <<crcVars, allocVars, map, loopVars>>

\* recv.OrDie()
OpOrDie ==
  /\ res' = OrDie(recv)
  /\ arg' = StatusDefault
  /\ UNCHANGED <<recv, crcVars, allocVars, map, loopVars>>

\* Status::CodeName(code)
OpCodeName ==
  \E c \in Codes :
    /\ res' = [op |-> "CodeName", code |-> c, name |-> CodeName(c)]
    /\ arg' = StatusDefault
    /\ UNCHANGED <<recv, crcVars, allocVars, map, loopVars>>

Next ==
  \/ StatusSet \/ OpCopyConstruct \/ OpMoveConstruct \/ OpAssign \/ OpMoveAssign
  \/ OpOrAssign \/ OpOrDie \/ OpCodeName

Spec == Init /\ [][Next]_vars

(***************************************************************************)
(* The comparison operators, applied to every pair of Statuses.            *)
(***************************************************************************)
InitCompare ==
  /\ recv \in CmpStatuses /\ arg \in CmpStatuses
  /\ CrcIdle /\ AllocIdle /\ MapIdle /\ LoopIdle
  /\ res = NoResult

\* recv < arg and arg < recv
OpLess ==
  /\ res' = [op |-> "<", lt |-> Less(recv, arg), gt |-> Less(arg, recv)]
  /\ UNCHANGED <<statusVars, crcVars, allocVars, map, loopVars>>

\* recv == arg and recv != arg, and the same with the bare code of arg on the
\* right and on the left
OpEqual ==
  /\ res' = [op |-> "==",
             eq |-> Equal(recv, arg), ne |-> NotEqual(recv, arg),
             eq_code |-> EqualCode(recv, arg.code), ne_code |-> NotEqualCode(recv, arg.code),
             code_eq |-> CodeEqual(arg.code, recv), code_ne |-> CodeNotEqual(arg.code, recv)]
  /\ UNCHANGED <<statusVars, crcVars, allocVars, map, loopVars>>

NextCompare == OpLess \/ OpEqual

SpecCompare == InitCompare /\ [][NextCompare]_vars

(***************************************************************************)
(* The allocator: one caller-owned buffer, grown and resized through the   *)
(* wrappers.  size is the size requested by the call that produced cap.    *)
(***************************************************************************)
\* the terms of 8, 12, 18, 27, ... in arithmetic wide enough not to wrap
TermNext(c) == AddWrap(c, ShiftRight1(c))

\* the largest term that fits size_t, from the term c on
RECURSIVE LargestTermFrom(_)
LargestTermFrom(c) ==
  IF TermNext(c)[SizeLimbs + 1] # 0 THEN SubSeq(c, 1, SizeLimbs)
  ELSE LargestTermFrom(TermNext(c))

LargestTerm == LargestTermFrom(Widen(SizeT(8)))

\* the sizes requested: the small ones, the largest term and its successor
AllocSizes ==
  {SizeT(n) : n \in 0..MaxSize} \cup {LargestTerm, AddWrap(LargestTerm, SizeT(1))}

InitAlloc ==
  /\ StatusIdle /\ CrcIdle /\ AllocIdle /\ MapIdle /\ LoopIdle
  /\ res = NoResult

\* xmalloc(sz): the block is not kept in the caller's buffer
OpXmalloc ==
  \E sz \in AllocSizes, raw \in Pointers :
    /\ res' = [op |-> "xmalloc", size |-> sz, raw |-> raw, ret |-> xmalloc(sz, raw)]
    /\ UNCHANGED <<statusVars, crcVars, allocVars, map, loopVars>>

\* xcalloc(nmemb, sz): the block is not kept in the caller's buffer
OpXcalloc ==
  \E nmemb \in 0..MaxNmemb, sz \in AllocSizes, raw \in Pointers :
    /\ res' = [op |-> "xcalloc", nmemb |-> nmemb, size |-> sz, raw |-> raw,
               ret |-> xcalloc(nmemb, sz, raw)]
    /\ UNCHANGED <<statusVars, crcVars, allocVars, map, loopVars>>

\* the caller's buffer after std::realloc(ptr, passed) yielded raw: resized on
\* success, untouched on failure, except that a failure of size 0 may have
\* freed the block (freed)
BufferAfterRealloc(passed, requested, raw, freed) ==
  IF raw # NULL THEN <<raw, passed, requested>>
  ELSE IF freed THEN <<NULL, SizeT(0), SizeT(0)>>
  ELSE <<ptr, cap, size>>

\* ptr = xrealloc(ptr, sz)
OpXrealloc ==
  \E sz \in AllocSizes, raw \in Pointers, freed \in BOOLEAN :
    /\ freed => (raw = NULL /\ sz = SizeT(0) /\ ptr # NULL)
    /\ res' = [op |-> "xrealloc", size |-> sz, raw |-> raw, ret |-> xrealloc(ptr, sz, raw)]
    /\ LET b == BufferAfterRealloc(sz, sz, raw, freed)
       IN  ptr' = b[1] /\ cap' = b[2] /\ size' = b[3]
    /\ UNCHANGED <<statusVars, crcVars, map, loopVars>>

\* ptr = xreallocappend(ptr, sz): xrealloc with the capacity computed from sz
OpXreallocappend ==
  \E sz \in AllocSizes, raw \in Pointers :
    \E aligned_size \in {AlignedSize(sz)} :
        /\ res' = [op |-> "xreallocappend", size |-> sz, aligned |-> aligned_size,
                   raw |-> raw, ret |-> xrealloc(ptr, aligned_size, raw),
                   cap_before |-> cap, size_before |-> size]
        /\ LET b == BufferAfterRealloc(aligned_size, sz, raw, FALSE)
           IN  ptr' = b[1] /\ cap' = b[2] /\ size' = b[3]
        /\ UNCHANGED <<statusVars, crcVars, map, loopVars>>

\* xfree(ptr); ptr = nullptr
OpXfree ==
  /\ ptr # NULL
  /\ res' = [op |-> "xfree"]
  /\ ptr' = NULL /\ cap' = SizeT(0) /\ size' = SizeT(0)
  /\ UNCHANGED <<statusVars, crcVars, map, loopVars>>

NextAlloc == OpXmalloc \/ OpXcalloc \/ OpXrealloc \/ OpXreallocappend \/ OpXfree

SpecAlloc == InitAlloc /\ [][NextAlloc]_vars

(***************************************************************************)
(* One call of xreallocappend, the loop taken one round at a time.  The    *)
(* width of size_t belongs to the build: 64 bits or 32 bits.  On 64 bits   *)
(* the sizes are those of SpecAlloc; a size above every value of the       *)
(* orbit of 8 keeps the loop running for more rounds than can be           *)
(* enumerated there, so the largest size, SIZEMAX, is requested on 32 bits.*)
(***************************************************************************)
\* size_t: 32 bits
SizeLimbs32 == 2

SizeWidths == {SizeLimbs32, SizeLimbs}

\* std::numeric_limits<size_t>::max() for a size_t of k limbs
RECURSIVE SIZEMAX(_)
SIZEMAX(k) == IF k = 0 THEN <<>> ELSE <<LimbBase - 1>> \o SIZEMAX(k - 1)

\* the larger of x and y
MaxU(x, y) == IF LessU(x, y) THEN y ELSE x

\* The values aligned_size takes when the loop is never left are the orbit
\* of 8 under the loop body, which is eventually periodic.  s is <<t, h, m,
\* power, lam, met>>: h the value after the rounds run so far, m the largest
\* value up to h, t the value h had lam rounds ago, when the number of
\* rounds was power - 1, and met whether h has come back to t, by when h
\* has been round the whole cycle.
OrbitAdvance(s) ==
  LET renew == s[5] = s[4]
      t == IF renew THEN s[2] ELSE s[1]
      h == GrowStep(s[2])
  IN  <<t, h, MaxU(s[3], h), IF renew THEN 2 * s[4] ELSE s[4],
        IF renew THEN 1 ELSE s[5] + 1, h = t>>

\* 2^lv more rounds, or fewer when h has come back to t; the rounds are run
\* in nested halves, which keeps the evaluation shallow
RECURSIVE OrbitBlock(_, _)
OrbitBlock(s, lv) ==
  IF s[6] THEN s
  ELSE IF lv = 0 THEN OrbitAdvance(s)
  ELSE OrbitBlock(OrbitBlock(s, lv - 1), lv - 1)

\* blocks of 2^lv, 2^(lv+1), ... rounds until h has come back to t
RECURSIVE OrbitRun(_, _)
OrbitRun(s, lv) ==
  IF s[6] THEN s[3] ELSE OrbitRun(OrbitBlock(s, lv), lv + 1)

\* the largest value aligned_size ever takes on a 32-bit size_t
OrbitMax32 ==
  OrbitRun(<<ToLimbs(8, SizeLimbs32), ToLimbs(8, SizeLimbs32),
             ToLimbs(8, SizeLimbs32), 1, 0, FALSE>>, 0)

\* the largest value aligned_size ever takes on a 64-bit size_t,
\* 0xffffffffc309bbbc: the value of OrbitRun on four limbs, whose
\* 30443205623 rounds (a cycle of 13263336440 values) were run on the loop
\* body compiled for 64 bits
OrbitMax64 == <<48060, 49929, 65535, 65535>>

\* the largest value aligned_size ever takes on a size_t of k limbs
OrbitMax(k) == IF k = SizeLimbs32 THEN OrbitMax32 ELSE OrbitMax64

\* aligned_size < sz stays true for ever: sz is above every value of the orbit
NeverExits(sz) == LessU(OrbitMax(Len(sz)), sz)

\* the sizes requested on a build whose size_t has k limbs
LoopSizes(k) ==
  IF k = SizeLimbs THEN AllocSizes
  ELSE {ToLimbs(n, k) : n \in 0..MaxSize} \cup {SIZEMAX(k)}

InitGrow ==
  /\ StatusIdle /\ CrcIdle /\ MapIdle
  /\ res = NoResult
  /\ pc = "idle"
  /\ ptr = NULL
  /\ \E k \in SizeWidths :
       /\ cap = ToLimbs(0, k) /\ size = ToLimbs(0, k)
       /\ loop_size = ToLimbs(0, k) /\ loop_aligned = ToLimbs(0, k)

\* xreallocappend(ptr, sz) is entered: size_t aligned_size = 8
EnterXreallocappend ==
  /\ pc = "idle"
  /\ \E sz \in LoopSizes(Len(cap)) :
       /\ loop_size' = sz
       /\ loop_aligned' = ToLimbs(8, Len(cap))
  /\ pc' = "loop"
  /\ UNCHANGED <<statusVars, crcVars, allocVars, map, res>>

\* while (aligned_size < size) aligned_size += aligned_size >> 1: one round
LoopRound ==
  /\ pc = "loop"
  /\ LessU(loop_aligned, loop_size)
  /\ loop_aligned' = GrowStep(loop_aligned)
  /\ UNCHANGED <<statusVars, crcVars, allocVars, map, res, pc, loop_size>>

\* the loop condition is false: return xrealloc(ptr, aligned_size)
LoopExit ==
  /\ pc = "loop"
  /\ ~LessU(loop_aligned, loop_size)
  /\ \E raw \in Pointers :
       /\ res' = [op |-> "xreallocappend", size |-> loop_size, aligned |-> loop_aligned,
                  raw |-> raw, ret |-> xrealloc(ptr, loop_aligned, raw),
                  cap_before |-> cap, size_before |-> size]
       /\ LET b == BufferAfterRealloc(loop_aligned, loop_size, raw, FALSE)
          IN  ptr' = b[1] /\ cap' = b[2] /\ size' = b[3]
  /\ pc' = "exited"
  /\ UNCHANGED <<statusVars, crcVars, map, loop_size, loop_aligned>>

\* A loop that never ends and has no side effect is undefined behaviour:
\* the build may run it for ever (LoopRound) or take it to have ended, with
\* aligned_size >= size, and go on to return xrealloc(ptr, aligned_size).
LoopAssumedEnded ==
  /\ pc = "loop"
  /\ NeverExits(loop_size)
  /\ \E a \in {loop_size, SIZEMAX(Len(loop_size))}, raw \in Pointers :
       /\ loop_aligned' = a
       /\ res' = [op |-> "xreallocappend", size |-> loop_size, aligned |-> a,
                  raw |-> raw, ret |-> xrealloc(ptr, a, raw),
                  cap_before |-> cap, size_before |-> size]
       /\ LET b == BufferAfterRealloc(a, loop_size, raw, FALSE)
          IN  ptr' = b[1] /\ cap' = b[2] /\ size' = b[3]
  /\ pc' = "exited"
  /\ UNCHANGED <<statusVars, crcVars, map, loop_size>>

NextGrow == EnterXreallocappend \/ LoopRound \/ LoopExit \/ LoopAssumedEnded

\* a call that was entered keeps executing: the loop is sequential code; no
\* build is bound to take a loop that never ends to have ended
SpecGrow ==
  /\ InitGrow /\ [][NextGrow]_vars
  /\ WF_vars(LoopRound) /\ WF_vars(LoopExit)

(***************************************************************************)
(* The checksum: a buffer fed chunk by chunk through HashCRC32Continuous,  *)
(* and the one-shot HashCRC32 over the whole buffer.                       *)
(***************************************************************************)
InitCrc ==
  /\ buf \in Buffers /\ pos = 0 /\ acc = CRC_SEED
  /\ StatusIdle /\ AllocIdle /\ MapIdle /\ LoopIdle
  /\ res = NoResult

\* the next call of the cycle, on a non-empty chunk: seeded with the value the
\* previous call returned, finish set on the chunk that ends the buffer
OpFeedChunk ==
  /\ pos < Len(buf)
  /\ \E n \in 1..(Len(buf) - pos) :
       \E out \in {HashCRC32Continuous(SubSeq(buf, pos + 1, pos + n),
                                       pos + n = Len(buf), acc)} :
         /\ acc' = out
         /\ pos' = pos + n
         /\ res' = [op |-> "HashCRC32Continuous", finish |-> (pos + n = Len(buf)),
                    chunks |-> (IF res.op = "HashCRC32Continuous"
                                THEN res.chunks + 1 ELSE 1)]
         /\ UNCHANGED <<buf, statusVars, allocVars, map, loopVars>>

\* HashCRC32 over the whole buffer, once the cycle is finished
OpHashCRC32 ==
  /\ pos = Len(buf)
  /\ res.op = "HashCRC32Continuous"
  /\ res' = [op |-> "HashCRC32", out |-> HashCRC32(buf), chunks |-> res.chunks]
  /\ UNCHANGED <<crcVars, statusVars, allocVars, map, loopVars>>

NextCrc == OpFeedChunk \/ OpHashCRC32

SpecCrc == InitCrc /\ [][NextCrc]_vars

(***************************************************************************)
(* The lookup: SearchMap applied to every container, key and default.      *)
(***************************************************************************)
InitMap ==
  /\ map \in Containers
  /\ StatusIdle /\ CrcIdle /\ AllocIdle /\ LoopIdle
  /\ res = NoResult

\* SearchMap(map, key, default_value): the container is passed by value
OpSearchMap ==
  \E key \in MapKeys, default_value \in MapValues(map.mapped_type) :
    /\ res' = [op |-> "SearchMap", key |-> key, default_value |-> default_value,
               out |-> SearchMap(map, key, default_value), map_before |-> map]
    /\ UNCHANGED <<map, statusVars, crcVars, allocVars, loopVars>>

\* CheckMap(map, key)
OpCheckMap ==
  \E key \in MapKeys :
    /\ res' = [op |-> "CheckMap", key |-> key, out |-> CheckMap(map, key)]
    /\ UNCHANGED <<map, statusVars, crcVars, allocVars, loopVars>>

NextMap == OpSearchMap \/ OpCheckMap

SpecMap == InitMap /\ [][NextMap]_vars

(***************************************************************************)
(* Properties of the Status operations.                                    *)
(***************************************************************************)
\* C1: a Status that holds a failure is left exactly as it was, kind and
\* detail, by operator|= with any right-hand Status, itself included.
C1_FailureIsSticky ==
  (res.op = "|=" /\ res.before.code # SUCCESS) => recv = res.before

\* a failing Status was combined with another, different failing Status
C1_Witness ==
  /\ res.op = "|=" /\ ~res.same
  /\ res.before.code # SUCCESS
  /\ arg.code # SUCCESS /\ arg.code # res.before.code /\ arg.message # res.before.message
  /\ recv = res.before

\* C2, as claimed: after receiver |= rhs on a SUCCESS receiver the receiver is
\* exactly rhs, kind and detail, whatever the kind of rhs.
C2_SuccessAdoptsRhs ==
  (res.op = "|=" /\ res.before.code = SUCCESS) => recv = arg

\* C2, amended: after receiver |= rhs on a SUCCESS receiver the receiver has the
\* kind of rhs; it is exactly rhs when the kind of rhs is not SUCCESS, and it is
\* left as it was, keeping its own detail, when the kind of rhs is SUCCESS.
C2_SuccessAdoptsFailure ==
  (res.op = "|=" /\ res.before.code = SUCCESS) =>
    /\ recv.code = arg.code
    /\ arg.code # SUCCESS => recv = arg
    /\ arg.code = SUCCESS => recv = res.before

\* a SUCCESS Status adopted a failure with another detail
C2_Witness ==
  /\ res.op = "|=" /\ res.before.code = SUCCESS
  /\ arg.code # SUCCESS /\ arg.message # res.before.message
  /\ recv = arg

\* C3: CodeName maps every kind to exactly the identifier the kind is
\* enumerated with, and no kind to the "unnamed error" fallback.
C3_CodeNameIsIdentifier ==
  res.op = "CodeName" =>
    /\ res.name = CodeIdent(res.code)
    /\ res.name # "unnamed error"

\* needle occurs in hay
Contains(hay, needle) ==
  \E i \in 1..(Len(hay) - Len(needle) + 1) :
    SubSeq(hay, i, i + Len(needle) - 1) = needle

\* C4: OrDie returns normally on SUCCESS; on any other kind it throws a
\* StatusException that carries the same kind and detail and whose message
\* starts with the kind's display name, contains the kind's identifier, and
\* goes on with ": " and the detail exactly when the detail is not empty.
C4_OrDieEscalates ==
  res.op = "OrDie" =>
    /\ res.thrown = (recv.code # SUCCESS)
    /\ ~res.thrown => res.ret = recv
    /\ res.thrown =>
         LET what == res.exc.what
             name == CodeName(recv.code)
         IN  /\ GetStatus(res.exc) = recv
             /\ SubSeq(what, 1, Len(name)) = name
             /\ Contains(what, CodeIdent(recv.code))
             /\ SubSeq(what, Len(name) + 1, Len(what)) =
                  (IF recv.message = "" THEN "" ELSE ": " \o recv.message)

\* OrDie threw on a failure that has a detail
C4_Witness ==
  /\ res.op = "OrDie" /\ res.thrown
  /\ recv.code = NOT_FOUND_ERROR /\ recv.message # ""

\* a < b in the lexicographic order of the characters' unsigned values
LexLess(a, b) ==
  \E i \in 1..Len(b) :
    /\ i <= Len(a) + 1
    /\ SubSeq(a, 1, i - 1) = SubSeq(b, 1, i - 1)
    /\ i <= Len(a) => CharCode(SubSeq(a, i, i)) < CharCode(SubSeq(b, i, i))

\* C10: operator< orders by the kind's ordinal and, between equal kinds,
\* lexicographically by detail; it is irreflexive and transitive, and of two
\* Statuses that differ in kind or detail exactly one is less than the other.
C10_LessIsStrictTotalOrder ==
  res.op = "<" =>
    /\ res.lt = ( \/ recv.code < arg.code
                  \/ recv.code = arg.code /\ LexLess(recv.message, arg.message) )
    /\ recv = arg => ~res.lt
    /\ recv # arg => (res.lt # res.gt)
    /\ \A c \in CmpStatuses : (res.lt /\ Less(arg, c)) => Less(recv, c)

\* a tie on the kind was broken by details that share a first character, and a
\* third Status lies above both
C10_Witness ==
  /\ res.op = "<" /\ res.lt /\ ~res.gt
  /\ recv.code = arg.code
  /\ recv.message # "" /\ Len(arg.message) > Len(recv.message)
  /\ SubSeq(arg.message, 1, 1) = SubSeq(recv.message, 1, 1)
  /\ \E c \in CmpStatuses : Less(arg, c)

\* C11: a == b holds exactly when the kinds are equal, whatever the details,
\* a != b is its negation, and comparing with the bare kind of b, on the
\* right or on the left, answers as comparing with a Status of that kind.
C11_EqualityByKindAlone ==
  res.op = "==" =>
    /\ res.eq = (recv.code = arg.code)
    /\ res.ne = ~res.eq
    /\ \A m \in CmpMessages : Equal(recv, Status(arg.code, m)) = res.eq
    /\ res.eq_code = Equal(recv, Status(arg.code, ""))
    /\ res.ne_code = NotEqual(recv, Status(arg.code, ""))
    /\ res.code_eq = Equal(Status(arg.code, ""), recv)
    /\ res.code_ne = NotEqual(Status(arg.code, ""), recv)
    /\ res.eq_code = res.eq /\ res.code_eq = res.eq
    /\ res.ne_code = res.ne /\ res.code_ne = res.ne

\* two Statuses of one failing kind and different details compared equal
C11_Witness ==
  /\ res.op = "==" /\ res.eq /\ ~res.ne /\ res.eq_code /\ res.code_eq
  /\ recv.code = NOT_FOUND_ERROR
  /\ recv.message # arg.message /\ recv.message # "" /\ arg.message # ""

(***************************************************************************)
(* Properties of the allocator.                                            *)
(***************************************************************************)
\* the first term not smaller than s of 8, 12, 18, 27, ..., from the term c on
RECURSIVE FirstTermAtLeast(_, _)
FirstTermAtLeast(c, s) ==
  IF LessU(c, s) THEN FirstTermAtLeast(TermNext(c), s) ELSE c

\* C6: for every requested size the capacity xreallocappend passes to xrealloc
\* is at least the size, at least 8, and the first term not smaller than the
\* size of the sequence c0 = 8, c(n+1) = c(n) + floor(c(n) / 2).
C6_CapacityIsFirstTerm ==
  res.op = "xreallocappend" =>
    /\ ~LessU(res.aligned, res.size)
    /\ ~LessU(res.aligned, SizeT(8))
    /\ Widen(res.aligned) = FirstTermAtLeast(Widen(SizeT(8)), Widen(res.size))

\* C6 for the sizes up to the largest term that fits size_t
C6_CapacityIsFirstTermWhenItFits ==
  (res.op = "xreallocappend" /\ ~LessU(LargestTerm, res.size)) =>
    /\ ~LessU(res.aligned, res.size)
    /\ ~LessU(res.aligned, SizeT(8))
    /\ Widen(res.aligned) = FirstTermAtLeast(Widen(SizeT(8)), Widen(res.size))

\* C7, as claimed: no call of xreallocappend on a buffer that an earlier call of
\* xreallocappend left (its capacity is the one computed from its request, and
\* differs from the request, so no xrealloc left it) leaves the buffer with
\* less capacity than it had.
C7_CapacityNeverDecreases ==
  ( /\ res.op = "xreallocappend"
    /\ res.cap_before # res.size_before
    /\ res.cap_before = AlignedSize(res.size_before) ) =>
    ~LessU(cap, res.cap_before)

\* C7, amended: a call of xreallocappend that fails leaves the capacity as it
\* was, and one that requests a size not smaller than the size requested by the
\* call that produced the current capacity leaves the buffer with no less
\* capacity than it had.
C7_CapacityMonotoneInSize ==
  res.op = "xreallocappend" =>
    /\ res.ret.outcome = "bad_alloc" => cap = res.cap_before
    /\ ~LessU(res.size, res.size_before) => ~LessU(cap, res.cap_before)

\* a buffer of capacity 12 was grown to 18 by a request of 13
C7_Witness ==
  /\ res.op = "xreallocappend" /\ res.ret.outcome = "returned"
  /\ res.cap_before = SizeT(12) /\ res.size = SizeT(13) /\ cap = SizeT(18)
  /\ LessU(res.size_before, res.size)

\* C8: xmalloc, xcalloc, xrealloc and xreallocappend return exactly when the
\* allocator yields a pointer that is not null, and return that pointer; they
\* throw std::bad_alloc exactly when it yields the null pointer, for every
\* size, 0 included.
C8_FailFast ==
  res.op \in {"xmalloc", "xcalloc", "xrealloc", "xreallocappend"} =>
    /\ (res.raw = NULL) = (res.ret.outcome = "bad_alloc")
    /\ (res.raw # NULL) = (res.ret.outcome = "returned")
    /\ res.ret.outcome = "returned" => (res.ret.ptr # NULL /\ res.ret.ptr = res.raw)

\* the allocator yielded the null pointer for a reallocation of size 0
C8_Witness ==
  /\ res.op = "xrealloc" /\ res.size = SizeT(0)
  /\ res.raw = NULL /\ res.ret.outcome = "bad_alloc"

(***************************************************************************)
(* Properties of the checksum and of the lookup.                           *)
(***************************************************************************)
\* C5: when the chunks of a buffer, whatever the split, have gone through
\* HashCRC32Continuous in order (seed 0xFFFFFFFF first, then the value returned
\* by the previous call, finish on the last chunk only), the value returned
\* last is the one-shot HashCRC32 of the whole buffer.
C5_ChunkedEqualsOneShot ==
  (pos = Len(buf) /\ pos > 0) => acc = HashCRC32(buf)

\* a buffer of three bytes went through in three chunks and the one-shot
\* checksum was taken
C5_Witness ==
  /\ res.op = "HashCRC32" /\ res.chunks = 3
  /\ Len(buf) = 3 /\ buf[1] # buf[2]
  /\ res.out = acc

\* C9: SearchMap returns exactly the default when the container lacks the key
\* and exactly the stored value when it holds the key, and leaves the container
\* as it was.
C9_LookupDefault ==
  res.op = "SearchMap" =>
    /\ ~CheckMap(res.map_before, res.key) => res.out = res.default_value
    /\ CheckMap(res.map_before, res.key) => res.out = res.map_before.recs[res.key]
    /\ map = res.map_before

\* C12: the capacity-growth loop of xreallocappend terminates for every
\* requested size of size_t, wrap-around included: a call that entered the
\* loop leaves it.
C12_GrowthLoopTerminates == (pc = "loop") ~> (pc = "exited")

====
